---- MODULE Spec2Model ----
(***************************************************************************)
(* Model of vedirect.py: the VE.Direct text-protocol decoder.              *)
(*                                                                         *)
(* A line is a sequence of byte values 0..255, terminator bytes included,  *)
(* as serial.Serial.readline returns it; the empty line <<>> is readline's *)
(* result on timeout.  Text (str) is a sequence of code points.  The Field *)
(* Record self._data is a function from keys to values, both text.         *)
(***************************************************************************)
EXTENDS Integers, Sequences, FiniteSets, TLC

VARIABLES
    data,         \* self._data, the Field Record behind the snapshot
    pc,           \* position of the caller: "idle", or inside refresh at "seek", "accum", "check"
    open,         \* TRUE while the serial.Serial of _get_data is open
    pdu,          \* the local list `data` of _get_data (kept after the call returns)
    frame,        \* the local `frame` of _get_data: <<>> while unbound, else <<the line read last>>
    result,       \* outcome of the latest call of a method: "none", "running", or what it returned or raised
    prev,         \* self._data as it was when the latest refresh was called
    calls,        \* number of calls of refresh and of parse_pdu made so far
    constructed,  \* TRUE once __init__ has returned
    stream,       \* lines of the script not yet read
    script,       \* the scripted line stream; <<>> when the device is live
    mark,         \* number of script lines still unread when the latest refresh was called
    shown,        \* what the caller read from the accessors of the record as it is: <<>>, or <<the readings>>
    arg           \* the list of lines the caller holds to pass to check_frame_checksum

vars == <<data, pc, open, pdu, frame, result, prev, calls, constructed, stream, script,
          mark, shown, arg>>

----------------------------------------------------------------------------
(* Bounds *)

\* longest PDU the model lets _get_data accumulate from a live device (a
\* scripted stream ends by itself)
MaxPdu == 3

\* number of calls of refresh (the one made by __init__ included) and of parse_pdu
MaxCalls == 2

\* longest scripted line stream
MaxScript == 4

\* largest integer code a device sends in the MPPT, CS and ERR fields
MaxCode == 7

----------------------------------------------------------------------------
(* Byte strings and the lines the device may send *)

b_PID == <<80, 73, 68>>                                  \* b'PID'
b_Checksum == <<67, 104, 101, 99, 107, 115, 117, 109>>   \* b'Checksum'

RECURSIVE SumBytes(_)
\* plain sum of the bytes of one line
SumBytes(line) ==
    IF line = <<>> THEN 0 ELSE Head(line) + SumBytes(Tail(line))

RECURSIVE SumLines(_)
\* plain sum of every byte of every line
SumLines(lines) ==
    IF lines = <<>> THEN 0 ELSE SumBytes(Head(lines)) + SumLines(Tail(lines))

\* the line b'Checksum\t<c>\r\n' whose byte c makes body plus this line sum to 0 mod 256
ChecksumLineFor(body) ==
    LET rest == SumLines(body) + SumBytes(b_Checksum) + 9 + 13 + 10
    IN  b_Checksum \o <<9, (256 - (rest % 256)) % 256, 13, 10>>

PIDa == <<80, 73, 68, 9, 48, 120, 65, 51, 56, 57, 13, 10>>             \* b'PID\t0xA389\r\n'
PIDb == <<80, 73, 68, 9, 48, 120, 65, 48, 53, 51, 13, 10>>             \* b'PID\t0xA053\r\n'
Va == <<86, 9, 49, 50, 56, 48, 48, 13, 10>>                            \* b'V\t12800\r\n'
ORa == <<79, 82, 9, 48, 120, 48, 48, 48, 48, 48, 48, 49, 49, 13, 10>>  \* b'OR\t0x00000011\r\n'
\* The next three lines each sum to 0 mod 256, so that they can stand inside
\* any burst without changing the burst's checksum byte.
NoTab == <<106, 117, 110, 107, 49, 13, 10>>                            \* b'junk1\r\n'
TwoTab == <<83, 69, 82, 35, 9, 72, 81, 9, 49, 13, 10>>                 \* b'SER#\tHQ\t1\r\n'
Vbad == <<86, 9, 49, 89, 13, 10>>                                      \* b'V\t1Y\r\n'
CkA == ChecksumLineFor(<<PIDa, Va>>)
CkB == ChecksumLineFor(<<PIDb, ORa>>)
CkP == ChecksumLineFor(<<PIDa>>)

\* Lines of a disturbed stream; the last two sum to 0 mod 256 as well.
PIDX == <<80, 73, 68, 88, 9, 49, 13, 10>>                              \* b'PIDX\t1\r\n'
SpCk == <<32, 67, 104, 101, 99, 107, 115, 117, 109, 9, 55, 86, 13, 10>> \* b' Checksum\t7V\r\n'
BadUtf == <<73, 255, 9, 49, 53, 50, 13, 10>>                           \* b'I\xff\t152\r\n'

\* readline's result on timeout
Timeout == <<>>

\* what a live device may deliver to one readline
LinePool == {PIDa, PIDb, Va, ORa, NoTab, TwoTab, Vbad, CkA, CkB, CkP}

\* what a scripted stream is made of
ScriptPool == {PIDa, PIDX, Va, Vbad, SpCk, BadUtf, CkA}

\* the scripted streams: up to MaxScript lines, then silence
Scripts == UNION { [1..n -> ScriptPool] : n \in 1..MaxScript }

\* well-formed bursts: a PID line first, no other PID line, byte sum 0 mod 256
Bursts ==
    { <<PIDa, Va, CkA>>,
      <<PIDb, ORa, CkB>>,
      <<PIDa, Va, ORa, ChecksumLineFor(<<PIDa, Va, ORa>>)>>,
      <<PIDa, CkP>> }

----------------------------------------------------------------------------
(* bytes and str methods used by the code *)

\* a test for the prefix as the whole key: the prefix and then the tab
StartsWith_WholeKey(line, prefix) ==
    /\ Len(line) > Len(prefix)
    /\ SubSeq(line, 1, Len(prefix) + 1) = Append(prefix, 9)

\* bytes.startswith
StartsWith(line, prefix) ==
    /\ Len(line) >= Len(prefix)
    /\ SubSeq(line, 1, Len(prefix)) = prefix

\* the bytes that bytes.strip() removes
BytesWhitespace == {9, 10, 11, 12, 13, 32}

RECURSIVE LStrip(_)
LStrip(s) ==
    IF s # <<>> /\ Head(s) \in BytesWhitespace THEN LStrip(Tail(s)) ELSE s

RECURSIVE RStrip(_)
RStrip(s) ==
    IF s # <<>> /\ s[Len(s)] \in BytesWhitespace
    THEN RStrip(SubSeq(s, 1, Len(s) - 1)) ELSE s

\* bytes.strip()
Strip(s) == RStrip(LStrip(s))

\* a UTF-8 continuation byte
IsCont(b) == b \in 128..191

\* Number of bytes of the valid UTF-8 sequence at the head of s (0 if there
\* is none), and number of bytes the decoder drops when there is none.
Utf8Valid(s) ==
    LET n == Len(s)
        b1 == s[1]
    IN  IF b1 < 128 THEN 1
        ELSE IF b1 \in 194..223 THEN (IF n >= 2 /\ IsCont(s[2]) THEN 2 ELSE 0)
        ELSE IF b1 \in 224..239 THEN
            (IF /\ n >= 3
                /\ IsCont(s[2]) /\ IsCont(s[3])
                /\ (b1 = 224 => s[2] >= 160)
                /\ (b1 = 237 => s[2] <= 159)
             THEN 3 ELSE 0)
        ELSE IF b1 \in 240..244 THEN
            (IF /\ n >= 4
                /\ IsCont(s[2]) /\ IsCont(s[3]) /\ IsCont(s[4])
                /\ (b1 = 240 => s[2] >= 144)
                /\ (b1 = 244 => s[2] <= 143)
             THEN 4 ELSE 0)
        ELSE 0

Utf8Skip(s) ==
    LET n == Len(s)
        b1 == s[1]
        ok2 == /\ n >= 2 /\ IsCont(s[2])
               /\ (b1 = 224 => s[2] >= 160) /\ (b1 = 237 => s[2] <= 159)
               /\ (b1 = 240 => s[2] >= 144) /\ (b1 = 244 => s[2] <= 143)
    IN  IF b1 \in 224..244 /\ ok2
        THEN (IF b1 >= 240 /\ n >= 3 /\ IsCont(s[3]) THEN 3 ELSE 2)
        ELSE 1

\* the code point of a valid sequence of k bytes at the head of s
Utf8Point(s, k) ==
    CASE k = 1 -> s[1]
      [] k = 2 -> (s[1] - 192) * 64 + (s[2] - 128)
      [] k = 3 -> (s[1] - 224) * 4096 + (s[2] - 128) * 64 + (s[3] - 128)
      [] k = 4 -> (s[1] - 240) * 262144 + (s[2] - 128) * 4096
                  + (s[3] - 128) * 64 + (s[4] - 128)

\* the number of bytes below 128 that s begins with
AsciiRun(s) ==
    LET high == {i \in 1..Len(s) : s[i] >= 128}
    IN  IF high = {} THEN Len(s) ELSE (CHOOSE i \in high : \A j \in high : i <= j) - 1

RECURSIVE Decode(_)
\* bytes.decode('utf-8', errors='ignore'): invalid bytes are dropped (a run
\* of bytes below 128 decodes to itself and is taken in one step)
Decode(s) ==
    IF s = <<>> THEN <<>>
    ELSE IF AsciiRun(s) > 0
    THEN SubSeq(s, 1, AsciiRun(s)) \o Decode(SubSeq(s, AsciiRun(s) + 1, Len(s)))
    ELSE LET k == Utf8Valid(s)
         IN  IF k > 0
             THEN <<Utf8Point(s, k)>> \o Decode(SubSeq(s, k + 1, Len(s)))
             ELSE Decode(SubSeq(s, Utf8Skip(s) + 1, Len(s)))

\* index of the first sep in s, 0 if there is none
IndexOf(s, sep) ==
    LET hits == {i \in 1..Len(s) : s[i] = sep}
    IN  IF hits = {} THEN 0 ELSE CHOOSE i \in hits : \A j \in hits : i <= j

RECURSIVE Split(_, _)
\* str.split(sep) for a one-character sep: the list of the parts between seps
Split(s, sep) ==
    LET i == IndexOf(s, sep)
    IN  IF i = 0 THEN <<s>>
        ELSE <<SubSeq(s, 1, i - 1)>> \o Split(SubSeq(s, i + 1, Len(s)), sep)

\* a store that keeps the value a key already has (dict.setdefault)
DictSet_KeepFirst(d, key, value) ==
    [k \in DOMAIN d \cup {key} |-> IF k \in DOMAIN d THEN d[k] ELSE value]

\* d[key] = value on a dict
DictSet(d, key, value) ==
    [k \in DOMAIN d \cup {key} |-> IF k = key THEN value ELSE d[k]]

\* the empty dict {}
EmptyDict == [k \in {} |-> <<>>]

----------------------------------------------------------------------------
(* check_frame_checksum, parse_pdu *)

RECURSIVE ChecksumOfFrame(_, _)
\* the inner loop: chksum = (chksum + char) % 256 for each char of the frame
ChecksumOfFrame(chksum, line) ==
    IF line = <<>> THEN chksum
    ELSE ChecksumOfFrame((chksum + Head(line)) % 256, Tail(line))

RECURSIVE ChecksumOfFrames(_, _)
\* the outer loop over the frames
ChecksumOfFrames(chksum, frames) ==
    IF frames = <<>> THEN chksum
    ELSE ChecksumOfFrames(ChecksumOfFrame(chksum, Head(frames)), Tail(frames))

\* a checksum that leaves the Checksum line out of the sum
check_frame_checksum_SkipChecksumLine(frames) ==
    ChecksumOfFrames(0, SelectSeq(frames, LAMBDA f : ~StartsWith(f, b_Checksum))) = 0

\* a checksum test that looks at the low seven bits of the sum only
check_frame_checksum_LowBits(frames) == ChecksumOfFrames(0, frames) % 128 = 0

check_frame_checksum(frames) == ChecksumOfFrames(0, frames) = 0

\* an iteration of parse_pdu's loop without the test for a tab
ParseFrame_NoTabTest(d, line) ==
    IF StartsWith(line, b_Checksum) THEN [data |-> d, ok |-> TRUE]
    ELSE LET parts == Split(Decode(Strip(line)), 9)
         IN  IF Len(parts) = 2
             THEN [data |-> DictSet(d, parts[1], parts[2]), ok |-> TRUE]
             ELSE [data |-> d, ok |-> FALSE]

\* One iteration of parse_pdu's loop on dict d: the dict after it and whether
\* it completed (ok) or raised ValueError at the unpacking of split's result.
ParseFrame(d, line) ==
    IF StartsWith(line, b_Checksum) THEN [data |-> d, ok |-> TRUE]
    ELSE LET key_value == Decode(Strip(line))
             parts == Split(key_value, 9)
         IN  IF IndexOf(key_value, 9) = 0 THEN [data |-> d, ok |-> TRUE]
             ELSE IF Len(parts) = 2
                  THEN [data |-> DictSet(d, parts[1], parts[2]), ok |-> TRUE]
                  ELSE [data |-> d, ok |-> FALSE]

RECURSIVE parse_pdu(_, _)
\* parse_pdu on self._data = d: the loop stops at the first frame that raises
parse_pdu(d, frames) ==
    IF frames = <<>> THEN [data |-> d, ok |-> TRUE]
    ELSE LET r == ParseFrame(d, Head(frames))
         IN  IF r.ok THEN parse_pdu(r.data, Tail(frames)) ELSE r

----------------------------------------------------------------------------
(* Conversions of text to numbers: int(), int(.., 16), float()             *)
(* A float is a record.  Kind "num" with num and exp is the double nearest *)
(* to the decimal num * 10^exp, a normal number or zero; kind "subnormal"  *)
(* is the same below the smallest normal number; "inf" with the sign in    *)
(* num and "nan" are what they say; kind "quot" with num, exp and div is   *)
(* the double division of the double nearest to num * 10^exp by div, kept  *)
(* unevaluated where the quotient of the decimals need not be the result.  *)

\* the characters int() and float() accept as blanks around a number
StrWhitespace ==
    {9, 10, 11, 12, 13, 32, 133, 160, 5760, 8232, 8233, 8239, 8287, 12288}
    \cup (8192..8202)

RECURSIVE StrLStrip(_)
StrLStrip(s) ==
    IF s # <<>> /\ Head(s) \in StrWhitespace THEN StrLStrip(Tail(s)) ELSE s

RECURSIVE StrRStrip(_)
StrRStrip(s) ==
    IF s # <<>> /\ s[Len(s)] \in StrWhitespace
    THEN StrRStrip(SubSeq(s, 1, Len(s) - 1)) ELSE s

StrStrip(s) == StrRStrip(StrLStrip(s))

\* the code points of the zeros of the decimal digits of Unicode; the digits
\* 1 to 9 of each script follow their zero
DecimalZeros ==
    {48, 1632, 1776, 1984, 2406, 2534, 2662, 2790, 2918, 3046, 3174, 3302, 3430,
     3558, 3664, 3792, 3872, 4160, 4240, 6112, 6160, 6470, 6608, 6784, 6800, 6992,
     7088, 7232, 7248, 42528, 43216, 43264, 43472, 43504, 43600, 44016, 65296,
     66720, 68912, 69734, 69872, 69942, 70096, 70384, 70736, 70864, 71248, 71360,
     71472, 71904, 72016, 72784, 73040, 73120, 92768, 92864, 93008, 120782,
     120792, 120802, 120812, 120822, 123200, 123632, 125264, 130032}

\* the value of character c as a digit of the base, -1 if it is none
DigitValue(c, base) ==
    LET v == IF c \in 48..57 THEN c - 48
             ELSE IF c \in 97..122 THEN c - 87
             ELSE IF c \in 65..90 THEN c - 55
             ELSE IF c < 128 THEN -1
             ELSE LET zeros == {z \in DecimalZeros : z <= c /\ c <= z + 9}
                  IN  IF zeros # {} THEN c - (CHOOSE z \in zeros : TRUE) ELSE -1
    IN  IF v < base THEN v ELSE -1

\* digit (["_"] digit)* in the base
IsDigitPart(s, base) ==
    /\ s # <<>>
    /\ \A i \in 1..Len(s) :
          \/ DigitValue(s[i], base) >= 0
          \/ /\ s[i] = 95
             /\ 1 < i /\ i < Len(s)
             /\ DigitValue(s[i - 1], base) >= 0
             /\ DigitValue(s[i + 1], base) >= 0

RECURSIVE DigitsValue(_, _, _)
\* the number a digit part writes in the base, underscores skipped
DigitsValue(s, base, acc) ==
    IF s = <<>> THEN acc
    ELSE IF Head(s) = 95 THEN DigitsValue(Tail(s), base, acc)
    ELSE DigitsValue(Tail(s), base, acc * base + DigitValue(Head(s), base))

\* the number of digits of a digit part
CountDigits(s) == Cardinality({i \in 1..Len(s) : s[i] # 95})

\* a leading sign: 43 is '+', 45 is '-'
HasSign(s) == s # <<>> /\ Head(s) \in {43, 45}
Unsigned(s) == IF HasSign(s) THEN Tail(s) ELSE s
SignOf(s) == IF s # <<>> /\ Head(s) = 45 THEN -1 ELSE 1

\* the most digits int() converts in a base that is no power of two (the
\* default of sys.int_max_str_digits)
MaxStrDigits == 4300

\* int(text, base) for base 10 and 16: [ok |-> FALSE] stands for ValueError
ParseInt(text, base) ==
    LET t == StrStrip(text)
        u == Unsigned(t)
        \* every decimal digit is read as its ASCII digit before the prefix
        \* is looked for, so any decimal zero begins '0x'
        prefixed == /\ base = 16 /\ Len(u) >= 2
                    /\ DigitValue(u[1], 10) = 0 /\ u[2] \in {120, 88}
        v == IF prefixed THEN SubSeq(u, 3, Len(u)) ELSE u
        w == IF prefixed /\ v # <<>> /\ Head(v) = 95 THEN Tail(v) ELSE v
    IN  IF base = 10 /\ CountDigits(w) > MaxStrDigits
        THEN [ok |-> FALSE, val |-> 0]
        ELSE IF IsDigitPart(w, base)
        THEN [ok |-> TRUE, val |-> SignOf(t) * DigitsValue(w, base, 0)]
        ELSE [ok |-> FALSE, val |-> 0]

RECURSIVE FormatNat(_)
\* the decimal digits of a natural number
FormatNat(n) ==
    IF n < 10 THEN <<48 + n>> ELSE FormatNat(n \div 10) \o <<48 + (n % 10)>>

RECURSIVE Normalize(_, _)
\* the decimal num * 10^exp without trailing zeros in num
Normalize(num, exp) ==
    IF num = 0 THEN [kind |-> "num", num |-> 0, exp |-> 0]
    ELSE IF num % 10 = 0 THEN Normalize(num \div 10, exp + 1)
    ELSE [kind |-> "num", num |-> num, exp |-> exp]

\* the float 0.0
FloatZero == [kind |-> "num", num |-> 0, exp |-> 0]

RECURSIVE Pow10(_)
Pow10(k) == IF k = 0 THEN 1 ELSE 10 * Pow10(k - 1)

\* x / 10^k for a float x.  An integer below 2^53 and 10^k are exact doubles,
\* so their quotient is the double nearest to the decimal quotient; for any
\* other number the division stays unevaluated.
FloatDivPow10(x, k) ==
    IF k = 0 \/ x.kind \in {"inf", "nan"} THEN x
    ELSE IF x.kind = "num" /\ x.exp \in 0..9 THEN Normalize(x.num, x.exp - k)
    ELSE [kind |-> "quot", num |-> x.num, exp |-> x.exp, div |-> Pow10(k)]

\* the first ten digits of a natural number, zeros added to a shorter one
LeadDigits(digits) ==
    [i \in 1..10 |-> IF i <= Len(digits) THEN digits[i] - 48 ELSE 0]

\* a <= b for two sequences of ten digits
LeadLeq(a, b) ==
    \/ a = b
    \/ \E i \in 1..10 : a[i] < b[i] /\ \A j \in 1..(i - 1) : a[j] = b[j]

\* The double nearest to the decimal x of kind "num": an infinity from
\* 2^1024 - 2^970 (1.7976931348623158079e308) on, zero up to 2^-1075
\* (2.4703282292062327e-324), subnormal below 2^-1022 (2.2250738585072014e-308).
\* (a number of at most ten digits with an exponent between -300 and 297
\* is a normal number)
RoundToRange(x) ==
    LET digits == FormatNat(IF x.num < 0 THEN -x.num ELSE x.num)
        mag == x.exp + Len(digits) - 1
        lead == LeadDigits(digits)
    IN  IF x.num = 0 \/ (x.exp >= -300 /\ x.exp <= 297) THEN x
        ELSE IF mag > 308 \/ (mag = 308 /\ ~LeadLeq(lead, <<1, 7, 9, 7, 6, 9, 3, 1, 3, 4>>))
        THEN [kind |-> "inf", num |-> IF x.num < 0 THEN -1 ELSE 1, exp |-> 0]
        ELSE IF mag < -324 \/ (mag = -324 /\ LeadLeq(lead, <<2, 4, 7, 0, 3, 2, 8, 2, 2, 9>>))
        THEN [kind |-> "num", num |-> 0, exp |-> 0]
        ELSE IF mag < -308 \/ (mag = -308 /\ LeadLeq(lead, <<2, 2, 2, 5, 0, 7, 3, 8, 5, 8>>))
        THEN [kind |-> "subnormal", num |-> x.num, exp |-> x.exp]
        ELSE x

\* text in lower case
Lower(s) == [i \in 1..Len(s) |-> IF s[i] \in 65..90 THEN s[i] + 32 ELSE s[i]]

\* float(text): [ok |-> FALSE] stands for ValueError
ParseFloat(text) ==
    LET t == StrStrip(text)
        u == Unsigned(t)
        sgn == SignOf(t)
        e == LET i == IndexOf(u, 101) j == IndexOf(u, 69)
             IN  IF i = 0 THEN j ELSE IF j = 0 THEN i ELSE IF i < j THEN i ELSE j
        mant == IF e = 0 THEN u ELSE SubSeq(u, 1, e - 1)
        expo == IF e = 0 THEN <<>> ELSE SubSeq(u, e + 1, Len(u))
        p == IndexOf(mant, 46)
        ipart == IF p = 0 THEN mant ELSE SubSeq(mant, 1, p - 1)
        fpart == IF p = 0 THEN <<>> ELSE SubSeq(mant, p + 1, Len(mant))
        mantOk == \/ p = 0 /\ IsDigitPart(ipart, 10)
                  \/ p > 0 /\ IsDigitPart(ipart, 10) /\ fpart = <<>>
                  \/ p > 0 /\ ipart = <<>> /\ IsDigitPart(fpart, 10)
                  \/ p > 0 /\ IsDigitPart(ipart, 10) /\ IsDigitPart(fpart, 10)
        expoOk == e = 0 \/ IsDigitPart(Unsigned(expo), 10)
        expoVal == IF e = 0 THEN 0
                   ELSE SignOf(expo) * DigitsValue(Unsigned(expo), 10, 0)
    IN  IF Lower(u) \in {<<105, 110, 102>>, <<105, 110, 102, 105, 110, 105, 116, 121>>}
        THEN [ok |-> TRUE, val |-> [kind |-> "inf", num |-> sgn, exp |-> 0]]
        ELSE IF Lower(u) = <<110, 97, 110>>
        THEN [ok |-> TRUE, val |-> [kind |-> "nan", num |-> 0, exp |-> 0]]
        ELSE IF mantOk /\ expoOk
        THEN LET x == Normalize(sgn * DigitsValue(ipart \o fpart, 10, 0),
                                expoVal - CountDigits(fpart))
             IN  [ok |-> TRUE, val |-> RoundToRange(x)]
        ELSE [ok |-> FALSE, val |-> FloatZero]

\* str(n) as the f-string formats an int
FormatInt(n) == IF n < 0 THEN <<45>> \o FormatNat(-n) ELSE FormatNat(n)

----------------------------------------------------------------------------
(* The keys and defaults of the accessors *)

k_V == <<86>>                           \* 'V'
k_I == <<73>>                           \* 'I'
k_VPV == <<86, 80, 86>>                 \* 'VPV'
k_PPV == <<80, 80, 86>>                 \* 'PPV'
k_SER == <<83, 69, 82, 35>>             \* 'SER#'
k_MPPT == <<77, 80, 80, 84>>            \* 'MPPT'
k_FW == <<70, 87>>                      \* 'FW'
k_CS == <<67, 83>>                      \* 'CS'
k_OR == <<79, 82>>                      \* 'OR'
k_ERR == <<69, 82, 82>>                 \* 'ERR'
k_LOAD == <<76, 79, 65, 68>>            \* 'LOAD'
k_IL == <<73, 76>>                      \* 'IL'
k_H19 == <<72, 49, 57>>                 \* 'H19'
k_H20 == <<72, 50, 48>>                 \* 'H20'
k_H21 == <<72, 50, 49>>                 \* 'H21'
k_H22 == <<72, 50, 50>>                 \* 'H22'
k_H23 == <<72, 50, 51>>                 \* 'H23'
k_HSDS == <<72, 83, 68, 83>>            \* 'HSDS'
k_PID == <<80, 73, 68>>                 \* 'PID'
s_0 == <<48>>                           \* '0'
s_Unknown == <<85, 110, 107, 110, 111, 119, 110>>\* 'Unknown'

----------------------------------------------------------------------------
(* The typed accessors.  Each returns [ok |-> TRUE, val |-> v] when the    *)
(* property returns v, and [ok |-> FALSE, ...] when it raises ValueError.  *)

\* a lookup that yields the empty string for a missing key
DictGet_NoDefault(d, key, default) == IF key \in DOMAIN d THEN d[key] ELSE <<>>

\* dict.get(key, default)
DictGet(d, key, default) == IF key \in DOMAIN d THEN d[key] ELSE default

\* float(val), then a division by 10^k
ScaledFloat(val, k) ==
    LET f == ParseFloat(val)
    IN  IF f.ok THEN [ok |-> TRUE, val |-> FloatDivPow10(f.val, k)] ELSE f

mA(val) == ScaledFloat(val, 3)

mV(val) == ScaledFloat(val, 3)

\* the enum MPPTState: its members by value
MPPTState(code) ==
    CASE code = 0 -> [ok |-> TRUE, val |-> "Off"]
      [] code = 1 -> [ok |-> TRUE, val |-> "Limited"]
      [] code = 2 -> [ok |-> TRUE, val |-> "Active"]
      [] OTHER -> [ok |-> FALSE, val |-> "ValueError"]

\* the masks of OFF_REASON_CODES in the order of the dict
OffReasonMasks == <<1, 2, 4, 8, 16, 32, 64, 128>>

OFF_REASON_CODES(bitmask) ==
    CASE bitmask = 1 -> "No input power"
      [] bitmask = 2 -> "Switched off (power switch)"
      [] bitmask = 4 -> "Switched off (device mode register)"
      [] bitmask = 8 -> "Remote input"
      [] bitmask = 16 -> "Protection active"
      [] bitmask = 32 -> "Paygo active"
      [] bitmask = 64 -> "Boost mode"
      [] bitmask = 128 -> "Extended bulk active"

\* the keys of ERROR_CODES
ErrorCodeKeys == {0, 2, 17, 18, 19, 20, 21, 22, 26, 33, 34, 38, 116, 117, 119}

ERROR_CODES(code) ==
    CASE code = 0 -> "No error"
      [] code = 2 -> "Battery voltage too high"
      [] code = 17 -> "Charger temperature too high"
      [] code = 18 -> "Charger over current"
      [] code = 19 -> "Charger current reversed"
      [] code = 20 -> "Bulk time limit exceeded"
      [] code = 21 -> "Current sensor issue"
      [] code = 22 -> "Charger temperature sensor faulty"
      [] code = 26 -> "Terminals overheated"
      [] code = 33 -> "Input voltage too high (solar panel voltage)"
      [] code = 34 -> "Input current too high (solar panel current)"
      [] code = 38 -> "Input shutdown due to battery voltage"
      [] code = 116 -> "Factory calibration data lost"
      [] code = 117 -> "Invalid/incompatible firmware"
      [] code = 119 -> "User settings invalid"

battery_volts(d) == mV(DictGet(d, k_V, s_0))

battery_amps(d) == mA(DictGet(d, k_I, s_0))

solar_volts(d) == mV(DictGet(d, k_VPV, s_0))

solar_power(d) == ScaledFloat(DictGet(d, k_PPV, s_0), 0)

device_serial(d) == [ok |-> TRUE, val |-> DictGet(d, k_SER, s_Unknown)]

device_MPPT_state(d) ==
    LET code == ParseInt(DictGet(d, k_MPPT, s_0), 10)
    IN  IF code.ok THEN MPPTState(code.val) ELSE [ok |-> FALSE, val |-> "ValueError"]

firmware_version(d) == [ok |-> TRUE, val |-> DictGet(d, k_FW, s_Unknown)]

state_of_operation(d) ==
    LET cs_code == ParseInt(DictGet(d, k_CS, s_0), 10)
    IN  IF ~cs_code.ok THEN [ok |-> FALSE, val |-> "ValueError"]
        ELSE [ok |-> TRUE,
              val |-> CASE cs_code.val = 0 -> "Off"
                        [] cs_code.val = 2 -> "Fault"
                        [] cs_code.val = 3 -> "Bulk"
                        [] cs_code.val = 4 -> "Absorption"
                        [] cs_code.val = 5 -> "Float"
                        [] OTHER -> "Unknown"]

\* or_code & bitmask for a one-bit mask
BitAnd(or_code, bitmask) == IF (or_code \div bitmask) % 2 = 1 THEN bitmask ELSE 0

\* an off_reason that reads the OR value as a decimal number
off_reason_Decimal(d) ==
    LET parsed == ParseInt(DictGet(d, k_OR, s_0), 10)
        or_code == IF parsed.ok THEN parsed.val ELSE 0
        reasons == SelectSeq(OffReasonMasks, LAMBDA m : BitAnd(or_code, m) # 0)
    IN  [ok |-> TRUE,
         val |-> IF reasons # <<>>
                 THEN [i \in 1..Len(reasons) |-> OFF_REASON_CODES(reasons[i])]
                 ELSE <<"Unknown">>]

off_reason(d) ==
    LET parsed == ParseInt(DictGet(d, k_OR, s_0), 16)
        or_code == IF parsed.ok THEN parsed.val ELSE 0
        reasons == SelectSeq(OffReasonMasks, LAMBDA m : BitAnd(or_code, m) # 0)
    IN  [ok |-> TRUE,
         val |-> IF reasons # <<>>
                 THEN [i \in 1..Len(reasons) |-> OFF_REASON_CODES(reasons[i])]
                 ELSE <<"Unknown">>]

\* The description, or the f-string 'Unknown error code: {err_code}' kept as
\* its literal part and the formatted number.
error_code(d) ==
    LET parsed == ParseInt(DictGet(d, k_ERR, s_0), 10)
        err_code == IF parsed.ok THEN parsed.val ELSE -1
    IN  [ok |-> TRUE,
         val |-> IF err_code \in ErrorCodeKeys
                 THEN <<ERROR_CODES(err_code)>>
                 ELSE <<"Unknown error code: ", FormatInt(err_code)>>]

load_state(d) == [ok |-> TRUE, val |-> DictGet(d, k_LOAD, s_Unknown)]

load_current(d) == mA(DictGet(d, k_IL, s_0))

yield_total(d) == ScaledFloat(DictGet(d, k_H19, s_0), 2)

yield_today(d) == ScaledFloat(DictGet(d, k_H20, s_0), 2)

maximum_power_today(d) == ScaledFloat(DictGet(d, k_H21, s_0), 0)

yield_yesterday(d) == ScaledFloat(DictGet(d, k_H22, s_0), 2)

maximum_power_yesterday(d) == ScaledFloat(DictGet(d, k_H23, s_0), 0)

day_sequence_number(d) == ParseInt(DictGet(d, k_HSDS, s_0), 10)

product_id(d) == [ok |-> TRUE, val |-> DictGet(d, k_PID, s_Unknown)]

----------------------------------------------------------------------------
(* refresh *)

\* a with statement whose exit leaves the port as it is
WithExit_NoClose(isopen) == isopen

\* the with statement's exit closes the port
WithExit(isopen) == FALSE

\* a refresh that parses the lines into self._data before it tests the checksum
RefreshOutcome_ParseFirst(d, frames) ==
    LET r == parse_pdu(d, frames)
    IN  IF ~check_frame_checksum(frames)
        THEN [data |-> r.data, result |-> "InvalidChecksumException"]
        ELSE [data |-> r.data, result |-> IF r.ok THEN "ok" ELSE "ValueError"]

\* What refresh does with the list the read loops have built, on self._data = d:
\* _get_data checks it and raises or returns it, then parse_pdu runs.
RefreshOutcome(d, frames) ==
    IF ~check_frame_checksum(frames)
    THEN [data |-> d, result |-> "InvalidChecksumException"]
    ELSE LET r == parse_pdu(d, frames)
         IN  [data |-> r.data, result |-> IF r.ok THEN "ok" ELSE "ValueError"]

\* the lines one readline may return in the current state
Incoming ==
    IF script = <<>> THEN LinePool \cup {Timeout}
    ELSE IF stream = <<>> THEN {Timeout}
    ELSE {Head(stream)}

\* the line source after one readline
Consume == stream' = IF stream = <<>> THEN stream ELSE Tail(stream)

\* refresh is called, by __init__ on a new object with self._data = {} until
\* a construction has succeeded, by the caller after that: _get_data opens the port
RefreshCall ==
    /\ pc = "idle"
    /\ calls < MaxCalls
    /\ pc' = "seek"
    /\ open' = TRUE
    /\ pdu' = <<>>
    /\ frame' = <<>>
    /\ result' = "running"
    /\ data' = IF constructed THEN data ELSE EmptyDict
    /\ prev' = data'
    /\ calls' = calls + 1
    /\ mark' = Len(stream)
    /\ shown' = <<>>
    /\ UNCHANGED <<constructed, stream, script, arg>>

\* a first loop that keeps every line it reads
SeekRead_KeepsAll(line) ==
    /\ pc = "seek"
    /\ Consume
    /\ frame' = <<line>>
    /\ pdu' = Append(pdu, line)
    /\ IF StartsWith(line, b_PID) THEN pc' = "accum" ELSE UNCHANGED pc
    /\ UNCHANGED <<data, open, result, prev, calls, constructed, script, mark, shown, arg>>

\* one iteration of the first loop, readline returning line: wait for start of frame
SeekRead(line) ==
    /\ pc = "seek"
    /\ Consume
    /\ frame' = <<line>>
    /\ IF StartsWith(line, b_PID)
       THEN /\ pdu' = Append(pdu, line)
            /\ pc' = "accum"
       ELSE UNCHANGED <<pdu, pc>>
    /\ UNCHANGED <<data, open, result, prev, calls, constructed, script, mark, shown, arg>>

\* a second loop that appends the line before it tests it
AccumRead_KeepsEndLine(line) ==
    /\ pc = "accum"
    /\ Consume
    /\ frame' = <<line>>
    /\ script # <<>> \/ Len(pdu) < MaxPdu
    /\ pdu' = Append(pdu, line)
    /\ IF StartsWith(line, b_PID) \/ line = <<>>
       THEN /\ pc' = "check"
            /\ open' = WithExit(open)
       ELSE UNCHANGED <<pc, open>>
    /\ UNCHANGED <<data, result, prev, calls, constructed, script, mark, shown, arg>>

\* one iteration of the second loop, readline returning line: read until the
\* next PID or a timeout, then leave the with block
AccumRead(line) ==
    /\ pc = "accum"
    /\ Consume
    /\ frame' = <<line>>
    /\ IF StartsWith(line, b_PID) \/ line = <<>>
       THEN /\ pc' = "check"
            /\ open' = WithExit(open)
            /\ UNCHANGED pdu
       ELSE /\ script # <<>> \/ Len(pdu) < MaxPdu
            /\ pdu' = Append(pdu, line)
            /\ UNCHANGED <<pc, open>>
    /\ UNCHANGED <<data, result, prev, calls, constructed, script, mark, shown, arg>>

\* the rest of refresh: the checksum test of _get_data, then parse_pdu.
\* An exception that leaves __init__ leaves no object to the caller.
Finish ==
    /\ pc = "check"
    /\ LET out == RefreshOutcome(data, pdu)
       IN  /\ result' = out.result
           /\ constructed' = (constructed \/ out.result = "ok")
           /\ data' = out.data
    /\ pc' = "idle"
    /\ UNCHANGED <<open, pdu, frame, prev, calls, stream, script, mark, shown, arg>>

\* the lists of lines a caller passes to parse_pdu
DirectFrames == { <<Va, ORa>>, <<Vbad, TwoTab>> }

\* the caller calls the public method parse_pdu on a constructed object
ParsePduCall(frames) ==
    /\ pc = "idle"
    /\ constructed
    /\ calls < MaxCalls
    /\ calls' = calls + 1
    /\ LET r == parse_pdu(data, frames)
       IN  /\ data' = r.data
           /\ result' = IF r.ok THEN "parse_pdu returned" ELSE "parse_pdu ValueError"
    /\ shown' = <<>>
    /\ UNCHANGED <<pc, open, pdu, frame, prev, constructed, stream, script, mark, arg>>

\* the caller calls the static method check_frame_checksum on the list it holds
CheckCall ==
    /\ pc = "idle"
    /\ result' = IF check_frame_checksum(arg) THEN "check_frame_checksum True"
                                              ELSE "check_frame_checksum False"
    /\ UNCHANGED <<data, pc, open, pdu, frame, prev, calls, constructed, stream, script,
                   mark, shown, arg>>

\* the caller reads the three code accessors of a constructed object
Observe ==
    /\ pc = "idle"
    /\ constructed
    /\ shown' = << [mppt |-> device_MPPT_state(data),
                    cs |-> state_of_operation(data),
                    err |-> error_code(data)] >>
    /\ UNCHANGED <<data, pc, open, pdu, frame, result, prev, calls, constructed,
                   stream, script, mark, arg>>

Init ==
    /\ data = EmptyDict
    /\ pc = "idle"
    /\ open = FALSE
    /\ pdu = <<>>
    /\ frame = <<>>
    /\ result = "none"
    /\ prev = EmptyDict
    /\ calls = 0
    /\ constructed = FALSE
    /\ stream = <<>>
    /\ script = <<>>
    /\ mark = 0
    /\ shown = <<>>
    /\ arg = <<>>

\* the line stream is exactly two well-formed bursts, then silence
InitTwoBursts ==
    /\ data = EmptyDict
    /\ pc = "idle"
    /\ open = FALSE
    /\ pdu = <<>>
    /\ frame = <<>>
    /\ result = "none"
    /\ prev = EmptyDict
    /\ calls = 0
    /\ constructed = FALSE
    /\ \E b1 \in Bursts, b2 \in Bursts : script = b1 \o b2
    /\ stream = script
    /\ mark = 0
    /\ shown = <<>>
    /\ arg = <<>>

\* the line b'<key>\t<text>\r\n'
FieldLine(key, text) == key \o <<9>> \o text \o <<13, 10>>

\* the integer codes a device may send
Codes == (-2)..MaxCode

\* in place of a text: the burst does not carry the field
Absent == <<>>

\* the texts a device may send in the MPPT and CS fields
CodeTexts == { FormatInt(c) : c \in Codes } \cup {Absent}

\* the texts a device may send in the ERR field: codes in and out of
\* ERROR_CODES, and texts that int() rejects
ErrTexts ==
    { FormatInt(c) : c \in Codes \cup {17, 119, 999} }
        \cup { <<49, 89>>, <<48, 120, 49, 49>>, <<49, 46, 53>>, <<45>> }   \* '1Y' '0x11' '1.5' '-'
        \cup {Absent}

RECURSIVE ReadLines(_)
\* what successive readline calls return for these bytes: each line ends
\* after its first \n
ReadLines(bytes) ==
    LET i == IndexOf(bytes, 10)
    IN  IF bytes = <<>> THEN <<>>
        ELSE IF i = 0 THEN <<bytes>>
        ELSE <<SubSeq(bytes, 1, i)>> \o ReadLines(SubSeq(bytes, i + 1, Len(bytes)))

\* the line of a field, no line for a field the burst does not carry
FieldLines(key, text) == IF text = Absent THEN <<>> ELSE <<FieldLine(key, text)>>

\* the burst that carries the code fields, as readline delivers it (a
\* checksum byte \n ends the line it stands in)
CodeBurst(m, c, e) ==
    LET body == <<PIDa>> \o FieldLines(k_MPPT, m) \o FieldLines(k_CS, c)
                         \o FieldLines(k_ERR, e)
    IN  body \o ReadLines(ChecksumLineFor(body))

\* b'PID\r\n': a PID line without a tab, which starts a PDU and stores nothing
PIDbare == <<80, 73, 68, 13, 10>>

\* the burst of that line alone
BareBurst == <<PIDbare>> \o ReadLines(ChecksumLineFor(<<PIDbare>>))

\* the natural number n written in k decimal digits, zeros in front
ZeroPadded(n, k) == [i \in 1..(k - Len(FormatNat(n))) |-> 48] \o FormatNat(n)

\* texts of a field with an integer in it: the codes 0, 3 and 999 written in
\* one digit more than int() converts, the number 7, and the text '1Y'
FieldTexts ==
    { ZeroPadded(0, MaxStrDigits + 1), ZeroPadded(3, MaxStrDigits + 1),
      ZeroPadded(999, MaxStrDigits + 1), <<55>>, <<49, 89>> }

\* the lists a caller passes to parse_pdu: no line, the line of one field
\* that an integer accessor reads, or the line b'V\t1Y\r\n'
FieldFrames ==
    { <<FieldLine(k, t)>> : k \in {k_MPPT, k_CS, k_ERR, k_HSDS}, t \in FieldTexts }
        \cup { <<>>, <<Vbad>> }

\* __init__ has returned after reading one burst from a stream that then fell
\* silent: either a burst with code fields, or the burst of the bare PID line,
\* which leaves the record empty, and then the caller has passed one list of
\* lines to parse_pdu
InitAccessors ==
    /\ \/ /\ \E m \in CodeTexts, c \in CodeTexts, e \in ErrTexts :
                /\ script = CodeBurst(m, c, e)
                /\ data = RefreshOutcome(EmptyDict, script).data
          /\ result = "ok"
          /\ calls = 1
       \/ /\ script = BareBurst
          /\ \E frames \in FieldFrames :
                data = parse_pdu(RefreshOutcome(EmptyDict, script).data, frames).data
          /\ result = "parse_pdu returned"
          /\ calls = 2
    /\ pdu = script
    /\ stream = <<>>
    /\ mark = Len(script)
    /\ frame = <<Timeout>>
    /\ pc = "idle"
    /\ open = FALSE
    /\ prev = EmptyDict
    /\ constructed = TRUE
    /\ shown = <<>>
    /\ arg = <<>>

\* lines with the byte j of line i replaced by b
ReplaceByte(lines, i, j, b) == [lines EXCEPT ![i][j] = b]

\* nothing has been constructed; the caller holds a well-formed burst with
\* one byte replaced by another value
InitOneByteReplaced ==
    /\ \E burst \in Bursts :
          \E i \in 1..Len(burst) :
             \E j \in 1..Len(burst[i]) :
                \E b \in (0..255) \ {burst[i][j]} :
                   arg = ReplaceByte(burst, i, j, b)
    /\ data = EmptyDict
    /\ pc = "idle"
    /\ open = FALSE
    /\ pdu = <<>>
    /\ frame = <<>>
    /\ result = "none"
    /\ prev = EmptyDict
    /\ calls = 0
    /\ constructed = FALSE
    /\ stream = <<>>
    /\ script = <<>>
    /\ mark = 0
    /\ shown = <<>>

\* the line stream is one of the scripted streams, then silence
InitScripted ==
    /\ data = EmptyDict
    /\ pc = "idle"
    /\ open = FALSE
    /\ pdu = <<>>
    /\ frame = <<>>
    /\ result = "none"
    /\ prev = EmptyDict
    /\ calls = 0
    /\ constructed = FALSE
    /\ script \in Scripts
    /\ stream = script
    /\ mark = 0
    /\ shown = <<>>
    /\ arg = <<>>

Next ==
    \/ RefreshCall
    \/ \E line \in Incoming : SeekRead(line)
    \/ \E line \in Incoming : AccumRead(line)
    \/ Finish
    \/ \E frames \in DirectFrames : ParsePduCall(frames)
    \/ Observe

Spec == Init /\ [][Next]_vars

SpecTwoBursts == InitTwoBursts /\ [][Next]_vars

SpecScripted == InitScripted /\ [][Next]_vars

SpecAccessors == InitAccessors /\ [][Observe]_vars

SpecOneByteReplaced == InitOneByteReplaced /\ [][CheckCall]_vars

----------------------------------------------------------------------------
(* Properties *)

\* a refresh has returned or raised
Returned ==
    pc = "idle" /\ calls > 0 /\ result \in {"ok", "InvalidChecksumException", "ValueError"}

\* the byte sum of the PDU is 0 modulo 256
SumIsZero(lines) == SumLines(lines) % 256 = 0

\* the text of a line as the parser sees it
TextOf(line) == Decode(Strip(line))

\* the number of tabs in a text
TabCount(text) == Cardinality({i \in 1..Len(text) : text[i] = 9})

\* the text before the first tab and the text after it
KeyOf(text) == SubSeq(text, 1, IndexOf(text, 9) - 1)
ValueOf(text) == SubSeq(text, IndexOf(text, 9) + 1, Len(text))

\* C1: a refresh whose completed PDU fails the checksum (byte sum mod 256 # 0)
\* ends with the checksum-mismatch failure and leaves self._data equal to what
\* it was when refresh was called.
C1_ChecksumFailureKeepsRecord ==
    (Returned /\ ~SumIsZero(pdu)) =>
        (result = "InvalidChecksumException" /\ data = prev)

\* a checksum failure on a PDU whose lines would have changed a non-empty record
C1_Witness ==
    /\ Returned /\ ~SumIsZero(pdu)
    /\ result = "InvalidChecksumException"
    /\ prev # EmptyDict
    /\ parse_pdu(prev, pdu).data # prev

\* C2 (as claimed): after a successful refresh the Field Record holds only keys
\* parsed from that refresh's PDU (full replacement, not merge).
C2_OnlyKeysOfLatestPdu ==
    (Returned /\ result = "ok") =>
        DOMAIN data \subseteq DOMAIN parse_pdu(EmptyDict, pdu).data

\* the Field Record a burst carries
FieldsOf(burst) == parse_pdu(EmptyDict, burst).data

\* C3 (as claimed): on a line stream of exactly two well-formed bursts followed
\* by timeouts, the first refresh succeeds with the first burst's fields, the
\* second refresh succeeds with the second burst's fields, and so the second
\* call is never left waiting for a start marker on the exhausted stream.
C3_TwoBurstsTwoRefreshes ==
    \A b1 \in Bursts, b2 \in Bursts :
        script = b1 \o b2 =>
            /\ (Returned /\ calls = 1) => (result = "ok" /\ data = FieldsOf(b1))
            /\ (Returned /\ calls = 2) => (result = "ok" /\ data = FieldsOf(b2))
            /\ (calls = 2 /\ stream = <<>>) => pc # "seek"

\* C4 (as claimed): once readline has reported a timeout while no start marker
\* has been found, the refresh call has ended, with a failure that is not the
\* checksum mismatch; it does not keep reading.
C4_TimeoutWhileSeekingEndsRefresh ==
    (calls > 0 /\ pdu = <<>> /\ frame = <<Timeout>>) =>
        /\ pc = "idle"
        /\ result \notin {"running", "ok", "InvalidChecksumException"}

\* C5: check_frame_checksum accepts a completed PDU if and only if the sum of
\* every byte of every line (terminators and Checksum line included) is 0
\* modulo 256, and refresh raises InvalidChecksumException exactly when the
\* completed PDU is not accepted.
C5_AcceptsIffSumZero ==
    /\ (pc \in {"check", "idle"} /\ calls > 0) =>
           (check_frame_checksum(pdu) <=> SumIsZero(pdu))
    /\ Returned => (result = "InvalidChecksumException" <=> ~SumIsZero(pdu))

\* an accepted PDU of several lines, ended by a Checksum line, none of which
\* sums to 0 on its own
C5_Witness ==
    /\ Returned /\ result = "ok"
    /\ Len(pdu) >= 3
    /\ StartsWith(pdu[Len(pdu)], b_Checksum)
    /\ SumIsZero(pdu)
    /\ \A i \in 1..Len(pdu) : SumBytes(pdu[i]) % 256 # 0

\* the text '0x00000011'
s_0x00000011 == <<48, 120, 48, 48, 48, 48, 48, 48, 49, 49>>

\* the record holds OR = '0x00000011'
HoldsOR11 == k_OR \in DOMAIN data /\ data[k_OR] = s_0x00000011

\* the set of the names off_reason returns
OffReasonNames(d) == {off_reason(d).val[i] : i \in 1..Len(off_reason(d).val)}

\* C6 (amended): with OR = '0x00000011' off_reason returns exactly the two
\* names "No input power" (bit 0x01) and "Protection active" (bit 0x10).
C6_OffReason11 ==
    HoldsOR11 =>
        /\ off_reason(data).ok
        /\ off_reason(data).val = <<"No input power", "Protection active">>

\* C6 (as claimed): with OR = '0x00000011' off_reason returns exactly the two
\* names "No input power" and "Remote input".
C6_AsClaimed ==
    HoldsOR11 => OffReasonNames(data) = {"No input power", "Remote input"}

\* a refresh has stored OR = '0x00000011' read from the device
C6_Witness == Returned /\ result = "ok" /\ HoldsOR11 /\ ORa \in {pdu[i] : i \in 1..Len(pdu)}

\* C7 (as claimed): parsing an accepted PDU never fails, and every line with
\* at least one tab (the Checksum line aside) puts its key, the text before
\* the first tab, into the Field Record.
C7_ParseNeverFails ==
    (Returned /\ SumIsZero(pdu)) =>
        /\ result = "ok"
        /\ \A i \in 1..Len(pdu) :
              (~StartsWith(pdu[i], b_Checksum) /\ TabCount(TextOf(pdu[i])) >= 1)
                  => KeyOf(TextOf(pdu[i])) \in DOMAIN data

\* a line that is not a Checksum line and reads KEY<TAB>VALUE with one tab
WellFormed(line) == ~StartsWith(line, b_Checksum) /\ TabCount(TextOf(line)) = 1

\* line i is the last well-formed line of its key in the PDU
LastOfKey(lines, i) ==
    \A j \in (i + 1)..Len(lines) :
        WellFormed(lines[j]) => KeyOf(TextOf(lines[j])) # KeyOf(TextOf(lines[i]))

\* C8: in an accepted PDU that contains a line without a tab, that line does
\* not fail the parse (the parse succeeds unless some line has two or more
\* tabs), it adds no key (every key of the record was there before or stands
\* before a tab in a line of the PDU), and after the parse every well-formed
\* KEY<TAB>VALUE line is in the record with its own value (the last line of a
\* key when the key repeats).
C8_NoTabLineSkipped ==
    (Returned /\ SumIsZero(pdu)
       /\ \E i \in 1..Len(pdu) : TabCount(TextOf(pdu[i])) = 0) =>
        /\ (\A i \in 1..Len(pdu) : TabCount(TextOf(pdu[i])) <= 1) => result = "ok"
        /\ DOMAIN data \subseteq
              DOMAIN prev \cup {KeyOf(TextOf(pdu[i])) :
                                  i \in {j \in 1..Len(pdu) : TabCount(TextOf(pdu[j])) >= 1}}
        /\ result = "ok" =>
              \A i \in 1..Len(pdu) :
                  (WellFormed(pdu[i]) /\ LastOfKey(pdu, i)) =>
                      /\ KeyOf(TextOf(pdu[i])) \in DOMAIN data
                      /\ data[KeyOf(TextOf(pdu[i]))] = ValueOf(TextOf(pdu[i]))

\* a successful refresh of a PDU with a tabless line after a field line,
\* whose field is in the record
C8_Witness ==
    /\ Returned /\ result = "ok" /\ SumIsZero(pdu)
    /\ \E i \in 2..Len(pdu) :
          /\ pdu[i] = NoTab
          /\ \E j \in 1..(i - 1) :
                /\ WellFormed(pdu[j])
                /\ data[KeyOf(TextOf(pdu[j]))] = ValueOf(TextOf(pdu[j]))

\* C9: the serial port opened by a refresh is closed when its read loop is
\* left: it is closed already when the checksum is tested and the failure is
\* raised, and it is not open between two refresh calls.
C9_PortClosedOnExit ==
    /\ pc \in {"check", "idle"} => ~open
    /\ result \in {"ok", "InvalidChecksumException"} => ~open
    /\ pc \in {"seek", "accum"} => open

\* a checksum failure has been raised after the port was opened, and the port is closed
C9_Witness ==
    Returned /\ result = "InvalidChecksumException" /\ pdu # <<>> /\ ~open

\* the accessors that convert to float, with their keys and results
FloatAccessors(d) ==
    { <<k_V, battery_volts(d)>>, <<k_I, battery_amps(d)>>,
      <<k_VPV, solar_volts(d)>>, <<k_PPV, solar_power(d)>>,
      <<k_IL, load_current(d)>>, <<k_H19, yield_total(d)>>,
      <<k_H20, yield_today(d)>>, <<k_H21, maximum_power_today(d)>>,
      <<k_H22, yield_yesterday(d)>>, <<k_H23, maximum_power_yesterday(d)>> }

\* the accessors that return the raw string
StringAccessors(d) ==
    { <<k_SER, device_serial(d)>>, <<k_FW, firmware_version(d)>>,
      <<k_LOAD, load_state(d)>>, <<k_PID, product_id(d)>> }

\* C10: no accessor fails because its key is missing.  Whenever the caller
\* is outside refresh and can read the snapshot: on a record without the
\* accessor's key every float accessor returns 0.0, day_sequence_number 0,
\* device_MPPT_state Off, state_of_operation 'Off', the string accessors
\* 'Unknown'; off_reason and error_code never fail; and an accessor that fails
\* has its key in the record, with a value its conversion rejects.
C10_MissingKeyDefaults ==
    pc = "idle" =>
        /\ \A a \in FloatAccessors(data) :
              /\ a[1] \notin DOMAIN data => a[2] = [ok |-> TRUE, val |-> FloatZero]
              /\ ~a[2].ok => (a[1] \in DOMAIN data /\ ~ParseFloat(data[a[1]]).ok)
        /\ \A a \in StringAccessors(data) :
              /\ a[1] \notin DOMAIN data => a[2] = [ok |-> TRUE, val |-> s_Unknown]
              /\ a[2].ok
        /\ k_HSDS \notin DOMAIN data =>
              day_sequence_number(data) = [ok |-> TRUE, val |-> 0]
        /\ k_MPPT \notin DOMAIN data =>
              device_MPPT_state(data) = [ok |-> TRUE, val |-> "Off"]
        /\ k_CS \notin DOMAIN data =>
              state_of_operation(data) = [ok |-> TRUE, val |-> "Off"]
        /\ k_OR \notin DOMAIN data => off_reason(data) = [ok |-> TRUE, val |-> <<"Unknown">>]
        /\ k_ERR \notin DOMAIN data => error_code(data) = [ok |-> TRUE, val |-> <<"No error">>]
        /\ off_reason(data).ok /\ error_code(data).ok
        /\ ~day_sequence_number(data).ok =>
              (k_HSDS \in DOMAIN data /\ \A c \in Codes : data[k_HSDS] # FormatInt(c))
        /\ ~device_MPPT_state(data).ok =>
              (k_MPPT \in DOMAIN data /\ \A c \in 0..2 : data[k_MPPT] # FormatInt(c))
        /\ ~state_of_operation(data).ok =>
              (k_CS \in DOMAIN data /\ \A c \in Codes : data[k_CS] # FormatInt(c))

\* the record of a constructed object has the field HSDS with the text 1Y and
\* no field V: battery_volts is 0.0 and day_sequence_number fails
C10_Witness ==
    /\ pc = "idle" /\ constructed
    /\ k_V \notin DOMAIN data
    /\ battery_volts(data) = [ok |-> TRUE, val |-> FloatZero]
    /\ k_HSDS \in DOMAIN data /\ data[k_HSDS] = <<49, 89>>
    /\ ~day_sequence_number(data).ok

\* the text of a decimal number as the device sends it
s_3 == <<51>>
s_1 == <<49>>
s_999 == <<57, 57, 57>>
s_minus1 == <<45, 49>>

\* text writes the integer c in decimal: a minus sign for a negative c, any
\* number of zeros, then the digits of c
Writes(text, c) ==
    LET body == IF c < 0 THEN Tail(text) ELSE text
        digits == FormatNat(IF c < 0 THEN -c ELSE c)
        z == Len(body) - Len(digits)
    IN  /\ text # <<>>
        /\ c < 0 => Head(text) = 45
        /\ z >= 0
        /\ \A i \in 1..z : body[i] = 48
        /\ SubSeq(body, z + 1, Len(body)) = digits

\* C11: whatever integer code the MPPT field holds, device_MPPT_state gives
\* Off, Limited, Active for 0, 1, 2 and fails for every other code; whatever
\* integer code the CS field holds, state_of_operation does not fail, and it
\* gives "Unknown" for every code outside 0, 2, 3, 4, 5.
C11_StateCodes ==
    shown # <<>> =>
        \A c \in Codes :
            /\ (k_MPPT \in DOMAIN data /\ Writes(data[k_MPPT], c)) =>
                  CASE c = 0 -> shown[1].mppt = [ok |-> TRUE, val |-> "Off"]
                    [] c = 1 -> shown[1].mppt = [ok |-> TRUE, val |-> "Limited"]
                    [] c = 2 -> shown[1].mppt = [ok |-> TRUE, val |-> "Active"]
                    [] OTHER -> ~shown[1].mppt.ok
            /\ (k_CS \in DOMAIN data /\ Writes(data[k_CS], c)) =>
                  /\ shown[1].cs.ok
                  /\ (c \notin {0, 2, 3, 4, 5} => shown[1].cs.val = "Unknown")

\* the caller has read the accessors of a record whose MPPT code is 3 and whose CS code is 1
C11_Witness ==
    /\ shown # <<>>
    /\ k_MPPT \in DOMAIN data /\ data[k_MPPT] = s_3
    /\ k_CS \in DOMAIN data /\ data[k_CS] = s_1
    /\ ~shown[1].mppt.ok
    /\ shown[1].cs = [ok |-> TRUE, val |-> "Unknown"]

\* C12: error_code never fails; a decimal ERR value that is no key of
\* ERROR_CODES gives the unknown-code text with that very number in it, and an
\* ERR value that is no decimal integer gives the same text with -1.
C12_ErrorCodeTotal ==
    (shown # <<>> /\ k_ERR \in DOMAIN data) =>
        /\ shown[1].err.ok
        /\ \A c \in (Codes \cup {999}) \ ErrorCodeKeys :
              Writes(data[k_ERR], c) =>
                  shown[1].err.val = <<"Unknown error code: ", FormatInt(c)>>
        /\ (\A c \in Codes \cup {17, 119, 999} : ~Writes(data[k_ERR], c)) =>
                  shown[1].err.val = <<"Unknown error code: ", s_minus1>>

\* the caller has read error_code of a record whose ERR value is 999
C12_Witness ==
    /\ shown # <<>>
    /\ k_ERR \in DOMAIN data /\ data[k_ERR] = s_999
    /\ shown[1].err = [ok |-> TRUE, val |-> <<"Unknown error code: ", s_999>>]

\* the caller has read error_code of a record whose ERR value is the text 1Y
C12_WitnessNotDecimal ==
    /\ shown # <<>>
    /\ k_ERR \in DOMAIN data /\ data[k_ERR] = <<49, 89>>
    /\ shown[1].err = [ok |-> TRUE, val |-> <<"Unknown error code: ", s_minus1>>]

\* x and y are lists of lines of the same shape that differ in exactly one byte
IsOneByteOff(x, y) ==
    /\ Len(x) = Len(y)
    /\ \A i \in 1..Len(x) : Len(x[i]) = Len(y[i])
    /\ Cardinality(UNION { { <<i, j>> : j \in { k \in 1..Len(x[i]) : x[i][k] # y[i][k] } } :
                              i \in 1..Len(x) }) = 1

\* C13: whenever check_frame_checksum has been called on a burst of byte sum
\* 0 mod 256 with a single byte replaced by a different value, it has
\* returned False.
C13_OneByteReplacedRejected ==
    \A burst \in Bursts :
        (result # "none" /\ SumIsZero(burst) /\ IsOneByteOff(arg, burst)) =>
            result = "check_frame_checksum False"

\* a burst with one byte raised by 128 has been rejected
C13_Witness ==
    /\ result = "check_frame_checksum False"
    /\ \E burst \in Bursts :
          /\ SumIsZero(burst)
          /\ IsOneByteOff(arg, burst)
          /\ \E i \in 1..Len(arg) : \E j \in 1..Len(arg[i]) : arg[i][j] = burst[i][j] + 128

\* the line begins with the three bytes P, I, D (spec 4.1: its key prefix equals PID)
BeginsWithPID(line) ==
    Len(line) >= 3 /\ line[1] = 80 /\ line[2] = 73 /\ line[3] = 68

\* C14: once _get_data has left its read loops, the list it hands to the
\* checksum test is not empty, its first line begins with PID, none of its
\* later lines begins with PID (so the PID line that ended the accumulation,
\* which would be a later line, is not in it), and none of its lines is the
\* empty timeout record.
C14_PduShape ==
    (calls > 0 /\ pc \in {"check", "idle"}) =>
        /\ pdu # <<>>
        /\ BeginsWithPID(pdu[1])
        /\ \A i \in 2..Len(pdu) : ~BeginsWithPID(pdu[i])
        /\ \A i \in 1..Len(pdu) : pdu[i] # <<>>
        /\ frame # <<>>
        /\ (frame[1] # Timeout => BeginsWithPID(frame[1]))

\* a three-line list is handed over after a PID line ended the accumulation
C14_Witness ==
    /\ pc = "check"
    /\ Len(pdu) = 3
    /\ frame = <<PIDb>>

\* the script lines the latest refresh call has read so far
ReadSoFar == SubSeq(script, Len(script) - mark + 1, Len(script) - Len(stream))

\* index of the first line that begins with PID, 0 if there is none
FirstMarker(lines) ==
    IF \E i \in 1..Len(lines) : BeginsWithPID(lines[i])
    THEN CHOOSE i \in 1..Len(lines) :
            BeginsWithPID(lines[i]) /\ \A j \in 1..(i - 1) : ~BeginsWithPID(lines[j])
    ELSE 0

\* C15: once a refresh has left its read loops, the PDU is the run of the
\* lines read in this call from the first line that begins with PID up to,
\* and without, the first later line that begins with PID, or up to the
\* timeout; the lines read before the run add nothing to the checksum test
\* or to the record, and a run that a timeout ended is checked and parsed
\* like any other (the call succeeds when its byte sum is 0 mod 256).
C15_PduIsFirstRun ==
    (calls > 0 /\ pc \in {"check", "idle"}) =>
        LET r == ReadSoFar
            i == FirstMarker(r)
            byTimeout == (frame = <<Timeout>>)
            e == IF byTimeout THEN Len(r) ELSE Len(r) - 1
            run == SubSeq(r, i, e)
        IN  /\ i > 0
            /\ pdu = run
            /\ \A j \in (i + 1)..e : ~BeginsWithPID(r[j])
            /\ (byTimeout => stream = <<>>)
            /\ (~byTimeout => Len(r) > i /\ BeginsWithPID(r[Len(r)]))
            /\ (Returned =>
                  /\ (result = "InvalidChecksumException") = ~SumIsZero(run)
                  /\ ((\A j \in 1..Len(run) : TabCount(TextOf(run[j])) <= 1) =>
                         (result = "ok") = SumIsZero(run))
                  /\ DOMAIN data \subseteq
                         DOMAIN prev \cup { KeyOf(TextOf(run[j])) : j \in 1..Len(run) })

\* a call has discarded a line read before the PID line and has succeeded on
\* a run that a timeout ended
C15_Witness ==
    /\ pc = "idle"
    /\ calls > 0
    /\ result = "ok"
    /\ frame = <<Timeout>>
    /\ FirstMarker(ReadSoFar) = 2
    /\ Len(pdu) = 3

\* a call has handed over a run that a later PID line ended
C15_WitnessEndedByPID ==
    /\ pc = "check"
    /\ frame = <<PIDa>>
    /\ FirstMarker(ReadSoFar) = 2
    /\ Len(ReadSoFar) = 4

\* the number of lines that begin with PID
MarkerCount(lines) == Cardinality({ i \in 1..Len(lines) : BeginsWithPID(lines[i]) })

\* C16 as claimed: the line that started the PDU has the key PID exactly, and
\* so has the line that ended it.
C16_AsClaimed ==
    /\ pdu # <<>> => KeyOf(TextOf(pdu[1])) = k_PID
    /\ (calls > 0 /\ pc \in {"check", "idle"} /\ frame # <<Timeout>>) =>
            KeyOf(TextOf(frame[1])) = k_PID

\* C16: a line is a start marker if and only if its bytes begin with PID,
\* whatever follows them (PIDX as well): a call is still seeking exactly while
\* it has read no such line, is accumulating exactly after it has read one,
\* and has left the loops after the second one or after a timeout.
C16_PrefixIsMarker ==
    calls > 0 =>
        LET n == MarkerCount(ReadSoFar)
        IN  /\ pc = "seek" => n = 0
            /\ pc = "accum" => n = 1
            /\ pc \in {"check", "idle"} => n = (IF frame = <<Timeout>> THEN 1 ELSE 2)

\* a PIDX line has started a PDU and another PIDX line has ended it
C16_Witness ==
    /\ pc = "check"
    /\ pdu # <<>> /\ pdu[1] = PIDX
    /\ KeyOf(TextOf(pdu[1])) # k_PID
    /\ frame = <<PIDX>>

\* C17: after every refresh the record has no key Checksum.
C17_ChecksumNeverKey ==
    Returned => b_Checksum \notin DOMAIN data

\* bytes that no UTF-8 text contains
NeverInUtf8 == {192, 193} \cup (245..255)

\* the line has a byte that no UTF-8 text contains, and is ASCII otherwise
BadlyEncoded(line) ==
    /\ \E i \in 1..Len(line) : line[i] \in NeverInUtf8
    /\ \A i \in 1..Len(line) : line[i] < 128 \/ line[i] \in NeverInUtf8

\* the stripped line without the bytes that no UTF-8 text contains
ValidPart(line) == SelectSeq(Strip(line), LAMBDA b : b \notin NeverInUtf8)

\* C18: a badly encoded line of an accepted PDU is skipped as a whole.  The
\* parse of an accepted PDU succeeds, and every key of the record was there
\* before the call or stands in a validly encoded well-formed line of the PDU.
C18_AsClaimed ==
    (Returned /\ SumIsZero(pdu) /\ \A i \in 1..Len(pdu) : TabCount(TextOf(pdu[i])) <= 1) =>
        /\ result = "ok"
        /\ DOMAIN data \subseteq
              DOMAIN prev \cup { KeyOf(TextOf(pdu[i])) :
                                   i \in { j \in 1..Len(pdu) :
                                             WellFormed(pdu[j]) /\ ~BadlyEncoded(pdu[j]) } }

\* What parse_pdu does instead: a line of an accepted PDU with invalid bytes
\* does not fail the parse; its invalid bytes are dropped and what is left is
\* parsed like any other line: if that is KEY<TAB>VALUE, not beginning with
\* Checksum, the record maps KEY to VALUE (unless a later line sets the key
\* again).
C18_InvalidBytesDropped ==
    (Returned /\ SumIsZero(pdu) /\ \A i \in 1..Len(pdu) : TabCount(TextOf(pdu[i])) <= 1) =>
        /\ result = "ok"
        /\ \A i \in 1..Len(pdu) :
              ( /\ BadlyEncoded(pdu[i])
                /\ TabCount(ValidPart(pdu[i])) = 1
                /\ ~BeginsWithPID(pdu[i])
                /\ SubSeq(pdu[i], 1, 8) # b_Checksum
                /\ \A j \in (i + 1)..Len(pdu) :
                      KeyOf(ValidPart(pdu[j])) # KeyOf(ValidPart(pdu[i])) ) =>
                  /\ KeyOf(ValidPart(pdu[i])) \in DOMAIN data
                  /\ data[KeyOf(ValidPart(pdu[i]))] = ValueOf(ValidPart(pdu[i]))

\* an accepted PDU with the line b'I\xff\t152' has been parsed: the record maps I to 152
C18_Witness ==
    /\ Returned
    /\ result = "ok"
    /\ \E i \in 1..Len(pdu) : pdu[i] = BadUtf
    /\ k_I \in DOMAIN data
    /\ data[k_I] = <<49, 53, 50>>

\* C19: after a successful refresh, a key that stands in one or more
\* well-formed lines of the PDU is a key of the record, and the record maps it
\* to the value of the last of these lines.
C19_LastOccurrenceWins ==
    (Returned /\ result = "ok") =>
        \A i \in 1..Len(pdu) :
            (WellFormed(pdu[i]) /\ LastOfKey(pdu, i)) =>
                /\ KeyOf(TextOf(pdu[i])) \in DOMAIN data
                /\ data[KeyOf(TextOf(pdu[i]))] = ValueOf(TextOf(pdu[i]))

\* a PDU with two well-formed lines of one key and different values has been
\* parsed, and the record holds the value of the later line
C19_Witness ==
    /\ Returned
    /\ result = "ok"
    /\ \E i \in 1..Len(pdu) : \E j \in (i + 1)..Len(pdu) :
          /\ WellFormed(pdu[i]) /\ WellFormed(pdu[j])
          /\ KeyOf(TextOf(pdu[i])) = KeyOf(TextOf(pdu[j]))
          /\ ValueOf(TextOf(pdu[i])) # ValueOf(TextOf(pdu[j]))
          /\ LastOfKey(pdu, j)
          /\ data[KeyOf(TextOf(pdu[j]))] = ValueOf(TextOf(pdu[j]))

\* C20: a refresh that ends with a failure, whatever the failure, leaves the
\* record as it was when the refresh was called.
C20_FailureKeepsRecord ==
    (Returned /\ result # "ok") => data = prev

====
